---- MODULE Spec2Model ----
(***************************************************************************)
(* Items HTTP service: the request handler of the in-memory server and of  *)
(* the SQLite server, with the stores they keep at module scope.           *)
(***************************************************************************)
EXTENDS Integers, Sequences, FiniteSets, Bags, TLC

VARIABLES
    backend,    \* which server module the process runs: "memory" or "sql"
    up,         \* FALSE once an exception escaped the request listener
    items,      \* in-memory server: the module-level array (holes included)
    nextId,     \* in-memory server: the module-level counter
    rows,       \* SQL server: the rows of table items, in rowid order
    seq,        \* SQL server: sqlite_sequence.seq of table items (0: no row)
    inflight,   \* bag of requests whose body is still being read
    last,       \* the response written by the latest step (status 0: none)
    created,    \* history: the POSTs answered 201 since the last reset
    workload,   \* the name of the workload the clients of this behaviour send
    peer        \* two servers side by side: the answer of the in-memory one

vars == <<backend, up, items, nextId, rows, seq, inflight, last, created, workload, peer>>

----------------------------------------------------------------------------
(* Bounds of the model. *)

MaxId == 3
MaxInFlight == 1
SeqMaxId == 2
PairMaxId == 2
FaultMaxId == 2

(* Limits of validateItemInput. *)
NameMax == 100
DescMax == 500

----------------------------------------------------------------------------
(* JavaScript strings, run-length encoded: lead spaces, then len copies of *)
(* the character ch, then trail spaces.  A string without a non-space      *)
(* character has len = 0 and trail = 0.                                    *)

Str(lead, ch, len, trail) == [lead |-> lead, ch |-> ch, len |-> len, trail |-> trail]

EmptyStr == Str(0, "", 0, 0)

Length(s) == s.lead + s.len + s.trail

Trim(s) == IF s.len = 0 THEN EmptyStr ELSE Str(0, s.ch, s.len, 0)

----------------------------------------------------------------------------
(* JSON values as JSON.parse returns them.  An object carries the three    *)
(* properties the handler can meet; JUndefined is an absent property.      *)

JUndefined == [t |-> "undefined"]
JNull == [t |-> "null"]
JNum(n) == [t |-> "number", n |-> n]
JBool(b) == [t |-> "boolean", b |-> b]
JStr(s) == [t |-> "string", s |-> s]
JObj(id, name, description) ==
    [t |-> "object", id |-> id, name |-> name, description |-> description]

\* ToBoolean, as `!x` applies it
Truthy(v) ==
    CASE v.t = "undefined" -> FALSE
      [] v.t = "null" -> FALSE
      [] v.t = "number" -> v.n # 0
      [] v.t = "boolean" -> v.b
      [] v.t = "string" -> Length(v.s) > 0
      [] OTHER -> TRUE

\* data.name, data.description on a truthy value: primitives have neither
PropName(data) == IF data.t = "object" THEN data.name ELSE JUndefined
PropDescription(data) == IF data.t = "object" THEN data.description ELSE JUndefined

IsString(v) == v.t = "string"

----------------------------------------------------------------------------
(* Request bodies.  The body text is the sequence of the chunks received   *)
(* so far; a chunk is either a complete JSON document or text JSON.parse   *)
(* rejects.                                                                *)

JsonChunk(v) == [json |-> TRUE, value |-> v]
GarbageChunk == [json |-> FALSE, value |-> JUndefined]

\* JSON.parse(body) without the test of body: the empty text is no JSON
ParseBodyStrict(body) ==
    IF Len(body) = 1 /\ body[1].json THEN [threw |-> FALSE, data |-> body[1].value]
    ELSE [threw |-> TRUE, data |-> JUndefined]

\* `body ? JSON.parse(body) : undefined`
ParseBody(body) ==
    IF body = <<>> THEN [threw |-> FALSE, data |-> JUndefined]
    ELSE IF Len(body) = 1 /\ body[1].json THEN [threw |-> FALSE, data |-> body[1].value]
    ELSE [threw |-> TRUE, data |-> JUndefined]

----------------------------------------------------------------------------
(* validateItemInput *)

MsgBody == "Request body is required"
MsgName == "Name is required and must be a non-empty string"
MsgDescription == "Description is required and must be a non-empty string"
MsgNameLong == "Name must be 100 characters or less"
MsgDescriptionLong == "Description must be 500 characters or less"

FieldMissing(v) == ~Truthy(v) \/ ~IsString(v) \/ Length(Trim(v.s)) = 0

FieldTooLong(v, max) == Truthy(v) /\ IsString(v) /\ Length(v.s) > max

\* validation that stops at the first rule violated
validateFirstError(data) ==
    IF ~Truthy(data) THEN [isValid |-> FALSE, errors |-> <<MsgBody>>]
    ELSE IF FieldMissing(PropName(data)) THEN [isValid |-> FALSE, errors |-> <<MsgName>>]
    ELSE IF FieldMissing(PropDescription(data))
    THEN [isValid |-> FALSE, errors |-> <<MsgDescription>>]
    ELSE IF FieldTooLong(PropName(data), NameMax)
    THEN [isValid |-> FALSE, errors |-> <<MsgNameLong>>]
    ELSE IF FieldTooLong(PropDescription(data), DescMax)
    THEN [isValid |-> FALSE, errors |-> <<MsgDescriptionLong>>]
    ELSE [isValid |-> TRUE, errors |-> <<>>]

validateItemInput(data) ==
    IF ~Truthy(data) THEN [isValid |-> FALSE, errors |-> <<MsgBody>>]
    ELSE LET e1 == IF FieldMissing(PropName(data)) THEN <<MsgName>> ELSE <<>>
             e2 == IF FieldMissing(PropDescription(data)) THEN <<MsgDescription>> ELSE <<>>
             e3 == IF FieldTooLong(PropName(data), NameMax) THEN <<MsgNameLong>> ELSE <<>>
             e4 == IF FieldTooLong(PropDescription(data), DescMax)
                   THEN <<MsgDescriptionLong>> ELSE <<>>
             errors == e1 \o e2 \o e3 \o e4
         IN [isValid |-> Len(errors) = 0, errors |-> errors]

----------------------------------------------------------------------------
(* parseInt(path.split("/")[2]).  A path is the sequence of its segments   *)
(* after the leading slash, a segment a sequence of characters.            *)

DigitVal == [c \in {"0", "1", "2", "3", "4", "5", "6", "7", "8", "9"} |->
               CASE c = "0" -> 0 [] c = "1" -> 1 [] c = "2" -> 2 [] c = "3" -> 3
                 [] c = "4" -> 4 [] c = "5" -> 5 [] c = "6" -> 6 [] c = "7" -> 7
                 [] c = "8" -> 8 [] OTHER -> 9]

IsDigit(c) == c \in DOMAIN DigitVal

RECURSIVE DigitPrefix(_, _, _)
\* the value of the longest run of digits of s that starts at position i
DigitPrefix(s, i, acc) ==
    IF i > Len(s) \/ ~IsDigit(s[i]) THEN acc
    ELSE DigitPrefix(s, i + 1, 10 * acc + DigitVal[s[i]])

\* Number(segment) || 0 in the place of parseInt: no digits give 0
ParseIntOrZero(s) ==
    LET neg == Len(s) > 0 /\ s[1] = "-"
        from == IF Len(s) > 0 /\ s[1] \in {"-", "+"} THEN 2 ELSE 1
    IN [nan |-> FALSE,
        val |-> IF neg THEN 0 - DigitPrefix(s, from, 0) ELSE DigitPrefix(s, from, 0)]

\* the digits of radix 16 and below
RadixVal == [c \in {"0", "1", "2", "3", "4", "5", "6", "7", "8", "9",
                    "a", "b", "c", "d", "e", "f", "A", "B", "C", "D", "E", "F"} |->
               CASE c \in DOMAIN DigitVal -> DigitVal[c]
                 [] c \in {"a", "A"} -> 10 [] c \in {"b", "B"} -> 11
                 [] c \in {"c", "C"} -> 12 [] c \in {"d", "D"} -> 13
                 [] c \in {"e", "E"} -> 14 [] OTHER -> 15]

IsRadixDigit(c, radix) == c \in DOMAIN RadixVal /\ RadixVal[c] < radix

RECURSIVE RadixPrefix(_, _, _, _)
\* the value in the radix of the longest run of its digits from position i
RadixPrefix(s, i, radix, acc) ==
    IF i > Len(s) \/ ~IsRadixDigit(s[i], radix) THEN acc
    ELSE RadixPrefix(s, i + 1, radix, radix * acc + RadixVal[s[i]])

\* parseInt(segment), all of the segment required to be decimal digits
ParseIntStrict(s) ==
    IF s # <<>> /\ \A i \in 1..Len(s) : IsDigit(s[i])
    THEN [nan |-> FALSE, val |-> DigitPrefix(s, 1, 0)]
    ELSE [nan |-> TRUE, val |-> 0]

\* parseInt(segment) without a radix: a sign, then 0x or 0X selects radix 16
\* and is skipped, then the longest run of digits of the radix; NaN when
\* that run is empty
ParseInt(s) ==
    LET neg == Len(s) > 0 /\ s[1] = "-"
        from == IF Len(s) > 0 /\ s[1] \in {"-", "+"} THEN 2 ELSE 1
        hex == from + 1 <= Len(s) /\ s[from] = "0" /\ s[from + 1] \in {"x", "X"}
        radix == IF hex THEN 16 ELSE 10
        start == IF hex THEN from + 2 ELSE from
    IN IF start > Len(s) \/ ~IsRadixDigit(s[start], radix) THEN [nan |-> TRUE, val |-> 0]
       ELSE [nan |-> FALSE,
             val |-> IF neg THEN 0 - RadixPrefix(s, start, radix, 0)
                     ELSE RadixPrefix(s, start, radix, 0)]

\* path === "/items"
\* path.startsWith("/items"), the segments after /items ignored
IsItemsPrefix(path) == Len(path) >= 1 /\ path[1] = "items"

IsItems(path) == path = <<"items">>

\* path.startsWith("/items/")
UnderItems(path) == Len(path) >= 2 /\ path[1] = "items"

\* path.split("/")[2]
IdSegment(path) == path[2]

----------------------------------------------------------------------------
(* The in-memory store: a JavaScript array, which can have holes.          *)

Hole == [hole |-> TRUE]

Item(id, name, description) == [id |-> id, name |-> name, description |-> description]

RECURSIVE FindFrom(_, _, _)
\* items.findIndex((item) => item.id === id) from position i on.  The
\* callback is called for holes too, with undefined, and then throws.
FindFrom(arr, id, i) ==
    IF i > Len(arr) THEN [threw |-> FALSE, index |-> -1]
    ELSE IF arr[i] = Hole THEN [threw |-> TRUE, index |-> -1]
    ELSE IF arr[i].id = id THEN [threw |-> FALSE, index |-> i - 1]
    ELSE FindFrom(arr, id, i + 1)

\* findIndex / find: index is 0-based, -1 when no element matches
FindIndex(arr, id) == FindFrom(arr, id, 1)

\* arr[index] = x; writing past the end leaves holes
SetAt(arr, index, x) ==
    [i \in 1..(IF index + 1 > Len(arr) THEN index + 1 ELSE Len(arr)) |->
        IF i = index + 1 THEN x ELSE IF i <= Len(arr) THEN arr[i] ELSE Hole]

\* arr.splice(index, 1)
Splice(arr, index) ==
    [i \in 1..(Len(arr) - 1) |-> IF i <= index THEN arr[i] ELSE arr[i + 1]]

----------------------------------------------------------------------------
(* The SQL store: table items (id INTEGER PRIMARY KEY AUTOINCREMENT) and   *)
(* its sqlite_sequence entry.  rows is kept in rowid order.                *)

RECURSIVE MaxRowId(_)
MaxRowId(table) ==
    IF table = <<>> THEN 0
    ELSE LET m == MaxRowId(Tail(table))
         IN IF Head(table).id > m THEN Head(table).id ELSE m

\* the rowid of a table without AUTOINCREMENT: one more than the largest
NextRowIdReused(table, s) == MaxRowId(table) + 1

\* the rowid AUTOINCREMENT gives the next INSERT
NextRowId(table, s) == (IF MaxRowId(table) > s THEN MaxRowId(table) ELSE s) + 1

\* SELECT * FROM items WHERE id = ?  (the empty sequence: no row)
SelectById(table, id) == SelectSeq(table, LAMBDA r : r.id = id)

\* DELETE FROM items WHERE id = ?
DeleteById(table, id) == SelectSeq(table, LAMBDA r : r.id # id)

\* UPDATE items SET name = ?, description = ? WHERE id = ?
UpdateById(table, id, name, description) ==
    [i \in 1..Len(table) |->
        IF table[i].id = id THEN Item(id, name, description) ELSE table[i]]

----------------------------------------------------------------------------
(* Responses: res.writeHead(status) and res.end(JSON.stringify(...)).      *)

NoBody == [kind |-> "none"]
ErrorBody(msg) == [kind |-> "error", error |-> msg]
ValidationBody(errors) ==
    [kind |-> "validation", error |-> "Validation failed", details |-> errors]
ItemBody(item) == [kind |-> "item", item |-> item]
DeletedBody(item) == [kind |-> "deleted", message |-> "Item deleted", item |-> item]
\* JSON.stringify of an array writes null for a hole
ListBody(arr) == [kind |-> "list", list |-> arr]

\* the three res.setHeader calls at the top of the request listener
AllowOrigin == <<"Access-Control-Allow-Origin", "*">>
AllowMethods == <<"Access-Control-Allow-Methods", "GET, POST, PUT, DELETE">>
AllowHeaders == <<"Access-Control-Allow-Headers", "Content-Type">>

\* a listener that sets the first two headers only
CorsHeadersShort == {AllowOrigin, AllowMethods}

CorsHeaders == {AllowOrigin, AllowMethods, AllowHeaders}

\* the header writeHead(status, {...}) adds when a JSON body follows
ContentType == <<"Content-Type", "application/json">>

\* headers: those set on res before the routing, and those of writeHead;
\* fault: which store operation of the handler was set to throw while the
\* request was handled, the first or the second (0: none)
Response(method, path, payload, status, body, read) ==
    [method |-> method, path |-> path, payload |-> payload,
     status |-> status, body |-> body, read |-> read, fault |-> 0,
     headers |-> CorsHeaders \cup (IF body = NoBody THEN {} ELSE {ContentType})]

NoResponse == Response("", <<>>, <<>>, 0, NoBody, FALSE)

\* a request whose body is being read: the closure of the two callbacks
Reading(method, path, id, itemIndex, body, chunks) ==
    [method |-> method, path |-> path, id |-> id, itemIndex |-> itemIndex,
     body |-> body, chunks |-> chunks]

One(r) == SetToBag({r})

Posts == {r \in BagToSet(inflight) : r.method = "POST"}

\* the requests in flight that will take an id when they end
PendingPosts == BagCardinality([r \in Posts |-> inflight[r]])

----------------------------------------------------------------------------
(* The requests of a behaviour.                                            *)

Methods == {"GET", "POST", "PUT", "DELETE", "OPTIONS", "PATCH"}

DigitChars == <<"1", "2", "3", "4", "5", "6", "7", "8", "9">>

\* the path /items/<k>
ItemPath(k) == <<"items", <<DigitChars[k]>>>>

Json(v) == <<JsonChunk(v)>>

\* {"id": 7, "name": " a ", "description": " x"}
BodyA == Json(JObj(JNum(7), JStr(Str(1, "a", 1, 1)), JStr(Str(1, "x", 1, 0))))
\* {"name": "b", "description": "y"}
BodyB == Json(JObj(JUndefined, JStr(Str(0, "b", 1, 0)), JStr(Str(0, "y", 1, 0))))
\* {"name": ""}
BodyBad == Json(JObj(JUndefined, JStr(EmptyStr), JUndefined))

\* requests that overlap: a few bodies, the paths of the items
RaceWorkload ==
    [bodies |-> {BodyA, BodyB, BodyBad},
     requests |-> {<<"GET", <<"items">>>>, <<"POST", <<"items">>>>,
                   <<"OPTIONS", <<"items">>>>, <<"PATCH", <<"items">>>>}
                  \cup ({"GET", "PUT", "DELETE"}
                        \X ({<<"items", <<"a", "b", "c">>>>, <<"items", <<>>>>}
                            \cup {ItemPath(k) : k \in 1..MaxId})),
     slots |-> MaxInFlight,
     maxId |-> MaxId,
     serial |-> FALSE,
     faults |-> {0}]

Chars(ch, len) == Str(0, ch, len, 0)

FieldValues(ch, max) ==
    {JUndefined, JNull, JNum(5), JStr(EmptyStr), JStr(Str(3, "", 0, 0)),
     JStr(Chars(ch, 1)), JStr(Str(2, ch, 1, 2)),
     JStr(Chars(ch, max)), JStr(Chars(ch, max + 1)),
     JStr(Str(1, ch, max - 1, 1)), JStr(Str(max + 1, "", 0, 0))}

\* the bodies of the requests sent one at a time: no body, text that is no
\* JSON, JSON that is no object, and objects with every kind of field
SeqBodies ==
    LET name == JStr(Chars("a", 1))
        description == JStr(Chars("x", 1))
        wrong == {JUndefined, JStr(Chars("a", DescMax + 1))}
    IN {<<>>, <<GarbageChunk>>, Json(JNull), Json(JNum(0)), Json(JNum(5)),
        Json(JBool(TRUE)), Json(JStr(Chars("a", 3)))}
       \cup {Json(JObj(JUndefined, n, description)) : n \in FieldValues("a", NameMax)}
       \cup {Json(JObj(JUndefined, name, d)) : d \in FieldValues("x", DescMax)}
       \cup {Json(JObj(JUndefined, n, d)) : n \in wrong, d \in wrong}

\* requests one at a time: every kind of body, every kind of path
SeqWorkload ==
    [bodies |-> SeqBodies,
     requests |-> (Methods \X {<<"items">>})
                  \cup {<<"GET", <<"other">>>>, <<"OPTIONS", <<"other">>>>,
                        <<"OPTIONS", ItemPath(1)>>,
                        <<"POST", ItemPath(1)>>, <<"PATCH", ItemPath(1)>>}
                  \cup ({"GET", "PUT", "DELETE"}
                        \X ({<<"items", <<"a", "b", "c">>>>, <<"items", <<>>>>,
                             <<"items", <<"1", "a", "b">>>>, <<"items", <<"1">>, "extra">>,
                             <<"items", <<"-", "1">>>>, <<"items", <<"0">>>>,
                             <<"items", <<"9", "9", "9">>>>,
                             <<"items", <<"0", "x", "1">>>>, <<"items", <<"0", "x">>>>}
                            \cup {ItemPath(k) : k \in 1..SeqMaxId})),
     slots |-> MaxInFlight,
     maxId |-> SeqMaxId,
     serial |-> TRUE,
     faults |-> {0}]

\* {"name": 101 times "a", "description": "x"}
BodyLong == Json(JObj(JUndefined, JStr(Chars("a", NameMax + 1)), JStr(Chars("x", 1))))

\* the same requests sent to both servers, one at a time
PairWorkload ==
    [bodies |-> {<<>>, <<GarbageChunk>>, Json(JNull), BodyA, BodyB, BodyBad, BodyLong},
     requests |-> (Methods \X {<<"items">>})
                  \cup {<<"GET", <<"other">>>>, <<"POST", ItemPath(1)>>}
                  \cup ({"GET", "PUT", "DELETE"}
                        \X ({<<"items", <<"a", "b", "c">>>>, <<"items", <<>>>>,
                             <<"items", <<"1", "a", "b">>>>, <<"items", <<"0">>>>}
                            \cup {ItemPath(k) : k \in 1..(PairMaxId + 1)})),
     slots |-> MaxInFlight,
     maxId |-> PairMaxId,
     serial |-> TRUE,
     faults |-> {0}]

\* requests one at a time while store operations of the SQL server can fail
FaultWorkload ==
    [bodies |-> {<<>>, <<GarbageChunk>>, BodyA, BodyBad},
     requests |-> (Methods \X {<<"items">>})
                  \cup {<<"GET", <<"other">>>>}
                  \cup ({"GET", "PUT", "DELETE"}
                        \X ({<<"items", <<"a", "b", "c">>>>}
                            \cup {ItemPath(k) : k \in 1..(FaultMaxId + 1)})),
     slots |-> MaxInFlight,
     maxId |-> FaultMaxId,
     serial |-> TRUE,
     faults |-> {0, 1, 2}]

\* the workload of this behaviour
Workload ==
    IF workload = "race" THEN RaceWorkload
    ELSE IF workload = "pair" THEN PairWorkload
    ELSE IF workload = "fault" THEN FaultWorkload
    ELSE SeqWorkload

----------------------------------------------------------------------------
(* The handler, common part.                                               *)

\* res.writeHead(status); res.end(...)
Answer(r) == last' = r /\ up' = up

\* an exception leaves the request listener: no response is written and
\* the process exits
Throw(m, p) == last' = Response(m, p, <<>>, 0, NoBody, TRUE) /\ up' = FALSE

\* a step that writes no response
Silent == last' = NoResponse /\ up' = up

\* a new request, or a reset, can come in
Admit == up /\ (Workload.serial => inflight = EmptyBag)

\* the id the store gives the next created item
NextIdOf == IF backend = "memory" THEN nextId ELSE NextRowId(rows, seq)

InvalidId(m, p) == Response(m, p, <<>>, 400, ErrorBody("Invalid item ID"), FALSE)

ItemNotFound(m, p, payload) ==
    Response(m, p, payload, 404, ErrorBody("Item not found"), TRUE)

\* a catch block that reports the error as a failed validation
InvalidJsonAsValidation(r) ==
    Response(r.method, r.path, r.body, 400, ValidationBody(<<MsgBody>>), FALSE)

InvalidJson(r) ==
    Response(r.method, r.path, r.body, 400, ErrorBody("Invalid JSON"), FALSE)

ValidationFailed(r, errors) ==
    Response(r.method, r.path, r.body, 400, ValidationBody(errors), FALSE)

\* { id, name: data.name.trim(), description: data.description.trim() }
Trimmed(id, data) == Item(id, Trim(PropName(data).s), Trim(PropDescription(data).s))

\* the test of OPTIONS placed after the routes: the request falls through
OptionsAfterRoutes(m, p) ==
    /\ Admit
    /\ m = "OPTIONS"
    /\ Answer(Response(m, p, <<>>, 404, ErrorBody("Not found"), FALSE))
    /\ UNCHANGED <<backend, created, items, nextId, rows, seq, inflight, workload, peer>>

\* if (req.method === "OPTIONS")
Options(m, p) ==
    /\ Admit
    /\ m = "OPTIONS"
    /\ Answer(Response(m, p, <<>>, 200, NoBody, FALSE))
    /\ UNCHANGED <<backend, created, items, nextId, rows, seq, inflight, workload, peer>>

\* POST /items: the two callbacks are registered, nothing else happens
PostArrive(m, p) ==
    /\ Admit
    /\ m = "POST" /\ IsItems(p)
    /\ BagCardinality(inflight) < Workload.slots
    /\ NextIdOf + PendingPosts <= Workload.maxId
    /\ \E payload \in Workload.bodies :
          inflight' = inflight (+) One(Reading(m, p, 0, -1, <<>>, payload))
    /\ Silent
    /\ UNCHANGED <<backend, created, items, nextId, rows, seq, workload, peer>>

\* req.on("data"): body += chunk.toString()
Data(r) ==
    /\ up
    /\ r \in BagToSet(inflight)
    /\ r.chunks # <<>>
    /\ inflight' = (inflight (-) One(r))
                   (+) One([r EXCEPT !.body = Append(@, Head(r.chunks)),
                                     !.chunks = Tail(@)])
    /\ Silent
    /\ UNCHANGED <<backend, created, items, nextId, rows, seq, workload, peer>>

\* the request falls through every route
NotFound(m, p) ==
    /\ Admit
    /\ m # "OPTIONS"
    /\ ~(m = "GET" /\ (IsItems(p) \/ UnderItems(p)))
    /\ ~(m = "POST" /\ IsItems(p))
    /\ ~(m \in {"PUT", "DELETE"} /\ UnderItems(p))
    /\ Answer(Response(m, p, <<>>, 404, ErrorBody("Not found"), FALSE))
    /\ UNCHANGED <<backend, created, items, nextId, rows, seq, inflight, workload, peer>>

----------------------------------------------------------------------------
(* The in-memory server.                                                   *)

MemGetItems(m, p) ==
    /\ backend = "memory" /\ Admit
    /\ m = "GET" /\ IsItems(p)
    /\ Answer(Response(m, p, <<>>, 200, ListBody(items), TRUE))
    /\ UNCHANGED <<backend, created, items, nextId, rows, seq, inflight, workload, peer>>

MemGetItem(m, p) ==
    /\ backend = "memory" /\ Admit
    /\ m = "GET" /\ UnderItems(p)
    /\ LET id == ParseInt(IdSegment(p))
           found == FindIndex(items, id.val)
       IN IF id.nan THEN Answer(InvalidId(m, p))
          ELSE IF found.threw THEN Throw(m, p)
          ELSE IF found.index >= 0
               THEN Answer(Response(m, p, <<>>, 200, ItemBody(items[found.index + 1]), TRUE))
          ELSE Answer(ItemNotFound(m, p, <<>>))
    /\ UNCHANGED <<backend, created, items, nextId, rows, seq, inflight, workload, peer>>

\* the "end" callback of POST with nextId++ ahead of the validation
MemPostEndCountsFirst(r) ==
    /\ backend = "memory" /\ up
    /\ r \in BagToSet(inflight)
    /\ r.method = "POST" /\ r.chunks = <<>>
    /\ inflight' = inflight (-) One(r)
    /\ LET parsed == ParseBody(r.body)
           validation == validateItemInput(parsed.data)
           newItem == Trimmed(nextId, parsed.data)
       IN IF parsed.threw
          THEN Answer(InvalidJson(r)) /\ UNCHANGED <<items, nextId, created>>
          ELSE IF ~validation.isValid
          THEN /\ Answer(ValidationFailed(r, validation.errors))
               /\ nextId' = nextId + 1
               /\ UNCHANGED <<items, created>>
          ELSE /\ nextId' = nextId + 1
               /\ items' = Append(items, newItem)
               /\ created' = created + 1
               /\ Answer(Response(r.method, r.path, r.body, 201, ItemBody(newItem), FALSE))
    /\ UNCHANGED <<backend, rows, seq, workload, peer>>

MemPostEnd(r) ==
    /\ backend = "memory" /\ up
    /\ r \in BagToSet(inflight)
    /\ r.method = "POST" /\ r.chunks = <<>>
    /\ inflight' = inflight (-) One(r)
    /\ LET parsed == ParseBody(r.body)
           validation == validateItemInput(parsed.data)
           newItem == Trimmed(nextId, parsed.data)
       IN IF parsed.threw
          THEN Answer(InvalidJson(r)) /\ UNCHANGED <<items, nextId, created>>
          ELSE IF ~validation.isValid
          THEN Answer(ValidationFailed(r, validation.errors)) /\ UNCHANGED <<items, nextId, created>>
          ELSE /\ nextId' = nextId + 1
               /\ items' = Append(items, newItem)
               /\ created' = created + 1
               /\ Answer(Response(r.method, r.path, r.body, 201, ItemBody(newItem), FALSE))
    /\ UNCHANGED <<backend, rows, seq, workload, peer>>

\* PUT /items/:id up to the registration of the callbacks: itemIndex is
\* computed here and kept by the closure
MemPutArrive(m, p) ==
    /\ backend = "memory" /\ Admit
    /\ m = "PUT" /\ UnderItems(p)
    /\ LET id == ParseInt(IdSegment(p))
           found == FindIndex(items, id.val)
       IN IF id.nan THEN Answer(InvalidId(m, p)) /\ UNCHANGED inflight
          ELSE IF found.threw THEN Throw(m, p) /\ UNCHANGED inflight
          ELSE IF found.index = -1
          THEN Answer(ItemNotFound(m, p, <<>>)) /\ UNCHANGED inflight
          ELSE /\ BagCardinality(inflight) < Workload.slots
               /\ \E payload \in Workload.bodies :
                     inflight' = inflight
                                 (+) One(Reading(m, p, id.val, found.index, <<>>, payload))
               /\ Silent
    /\ UNCHANGED <<backend, created, items, nextId, rows, seq, workload, peer>>

MemPutEnd(r) ==
    /\ backend = "memory" /\ up
    /\ r \in BagToSet(inflight)
    /\ r.method = "PUT" /\ r.chunks = <<>>
    /\ inflight' = inflight (-) One(r)
    /\ LET parsed == ParseBody(r.body)
           validation == validateItemInput(parsed.data)
       IN IF parsed.threw
          THEN Answer(InvalidJson(r)) /\ UNCHANGED items
          ELSE IF ~validation.isValid
          THEN Answer(ValidationFailed(r, validation.errors)) /\ UNCHANGED items
          ELSE /\ items' = SetAt(items, r.itemIndex, Trimmed(r.id, parsed.data))
               /\ Answer(Response(r.method, r.path, r.body, 200,
                                  ItemBody(items'[r.itemIndex + 1]), TRUE))
    /\ UNCHANGED <<backend, created, nextId, rows, seq, workload, peer>>

MemDelete(m, p) ==
    /\ backend = "memory" /\ Admit
    /\ m = "DELETE" /\ UnderItems(p)
    /\ LET id == ParseInt(IdSegment(p))
           found == FindIndex(items, id.val)
       IN IF id.nan THEN Answer(InvalidId(m, p)) /\ UNCHANGED items
          ELSE IF found.threw THEN Throw(m, p) /\ UNCHANGED items
          ELSE IF found.index = -1
          THEN Answer(ItemNotFound(m, p, <<>>)) /\ UNCHANGED items
          ELSE /\ items' = Splice(items, found.index)
               /\ Answer(Response(m, p, <<>>, 200,
                                  DeletedBody(items[found.index + 1]), TRUE))
    /\ UNCHANGED <<backend, created, nextId, rows, seq, inflight, workload, peer>>

\* a reset that empties the array and keeps the counter
MemResetKeepsNextId ==
    /\ backend = "memory" /\ Admit
    /\ items' = <<>>
    /\ created' = 0
    /\ Silent
    /\ UNCHANGED <<backend, nextId, rows, seq, inflight, workload, peer>>

\* resetMyServerData
MemReset ==
    /\ backend = "memory" /\ Admit
    /\ items' = <<>>
    /\ nextId' = 1
    /\ created' = 0
    /\ Silent
    /\ UNCHANGED <<backend, rows, seq, inflight, workload, peer>>

----------------------------------------------------------------------------
(* The SQL server.  A store operation (prepare, run, get, all) can throw;  *)
(* fault is the number of the operation of the handler that throws, 0 for  *)
(* none.  A statement that throws changes nothing.                         *)

\* a catch block without the test of SyntaxError: every error is reported
\* as a body that is no JSON
InternalErrorAsInvalidJson(m, p, payload) ==
    Response(m, p, payload, 400, ErrorBody("Invalid JSON"), TRUE)

\* the catch block for an error that is no SyntaxError
InternalError(m, p, payload) ==
    Response(m, p, payload, 500, ErrorBody("Internal server error"), TRUE)

\* an answer of the SQL server, the fault of this step noted on it
AnswerSql(fault, r) == Answer([r EXCEPT !.fault = fault])

SqlGetItems(m, p) ==
    /\ backend = "sql" /\ Admit
    /\ m = "GET" /\ IsItems(p)
    /\ \E fault \in Workload.faults :
          IF fault = 1 THEN AnswerSql(fault, InternalError(m, p, <<>>))
          ELSE AnswerSql(fault, Response(m, p, <<>>, 200, ListBody(rows), TRUE))
    /\ UNCHANGED <<backend, created, items, nextId, rows, seq, inflight, workload, peer>>

SqlGetItem(m, p) ==
    /\ backend = "sql" /\ Admit
    /\ m = "GET" /\ UnderItems(p)
    /\ \E fault \in Workload.faults :
          LET id == ParseInt(IdSegment(p))
              item == SelectById(rows, id.val)
          IN IF id.nan THEN AnswerSql(fault, InvalidId(m, p))
             ELSE IF fault = 1 THEN AnswerSql(fault, InternalError(m, p, <<>>))
             ELSE IF item # <<>>
                  THEN AnswerSql(fault, Response(m, p, <<>>, 200, ItemBody(item[1]), TRUE))
             ELSE AnswerSql(fault, ItemNotFound(m, p, <<>>))
    /\ UNCHANGED <<backend, created, items, nextId, rows, seq, inflight, workload, peer>>

SqlPostEnd(r) ==
    /\ backend = "sql" /\ up
    /\ r \in BagToSet(inflight)
    /\ r.method = "POST" /\ r.chunks = <<>>
    /\ inflight' = inflight (-) One(r)
    /\ \E fault \in Workload.faults :
          LET parsed == ParseBody(r.body)
              validation == validateItemInput(parsed.data)
              newItem == Trimmed(NextRowId(rows, seq), parsed.data)
          IN IF parsed.threw
             THEN AnswerSql(fault, InvalidJson(r)) /\ UNCHANGED <<rows, seq, created>>
             ELSE IF ~validation.isValid
             THEN /\ AnswerSql(fault, ValidationFailed(r, validation.errors))
                  /\ UNCHANGED <<rows, seq, created>>
             ELSE IF fault = 1
             THEN /\ AnswerSql(fault, InternalError(r.method, r.path, r.body))
                  /\ UNCHANGED <<rows, seq, created>>
             ELSE /\ rows' = Append(rows, newItem)
                  /\ seq' = newItem.id
                  /\ created' = created + 1
                  /\ AnswerSql(fault, Response(r.method, r.path, r.body, 201, ItemBody(newItem), FALSE))
    /\ UNCHANGED <<backend, items, nextId, workload, peer>>

\* PUT /items/:id up to the registration of the callbacks
SqlPutArrive(m, p) ==
    /\ backend = "sql" /\ Admit
    /\ m = "PUT" /\ UnderItems(p)
    /\ LET id == ParseInt(IdSegment(p))
       IN IF id.nan THEN Answer(InvalidId(m, p)) /\ UNCHANGED inflight
          ELSE /\ BagCardinality(inflight) < Workload.slots
               /\ \E payload \in Workload.bodies :
                     inflight' = inflight (+) One(Reading(m, p, id.val, -1, <<>>, payload))
               /\ Silent
    /\ UNCHANGED <<backend, created, items, nextId, rows, seq, workload, peer>>

SqlPutEnd(r) ==
    /\ backend = "sql" /\ up
    /\ r \in BagToSet(inflight)
    /\ r.method = "PUT" /\ r.chunks = <<>>
    /\ inflight' = inflight (-) One(r)
    /\ \E fault \in Workload.faults :
          LET existingItem == SelectById(rows, r.id)
              parsed == ParseBody(r.body)
              validation == validateItemInput(parsed.data)
              updatedItem == Trimmed(r.id, parsed.data)
          IN IF fault = 1
             THEN AnswerSql(fault, InternalError(r.method, r.path, r.body)) /\ UNCHANGED rows
             ELSE IF existingItem = <<>>
             THEN AnswerSql(fault, ItemNotFound(r.method, r.path, r.body)) /\ UNCHANGED rows
             ELSE IF parsed.threw
             THEN AnswerSql(fault, [InvalidJson(r) EXCEPT !.read = TRUE]) /\ UNCHANGED rows
             ELSE IF ~validation.isValid
             THEN /\ AnswerSql(fault, [ValidationFailed(r, validation.errors) EXCEPT !.read = TRUE])
                  /\ UNCHANGED rows
             ELSE IF fault = 2
             THEN AnswerSql(fault, InternalError(r.method, r.path, r.body)) /\ UNCHANGED rows
             ELSE /\ rows' = UpdateById(rows, r.id, updatedItem.name, updatedItem.description)
                  /\ AnswerSql(fault, Response(r.method, r.path, r.body, 200, ItemBody(updatedItem), TRUE))
    /\ UNCHANGED <<backend, created, items, nextId, seq, workload, peer>>

SqlDelete(m, p) ==
    /\ backend = "sql" /\ Admit
    /\ m = "DELETE" /\ UnderItems(p)
    /\ \E fault \in Workload.faults :
          LET id == ParseInt(IdSegment(p))
              item == SelectById(rows, id.val)
          IN IF id.nan THEN AnswerSql(fault, InvalidId(m, p)) /\ UNCHANGED rows
             ELSE IF fault = 1 THEN AnswerSql(fault, InternalError(m, p, <<>>)) /\ UNCHANGED rows
             ELSE IF item = <<>> THEN AnswerSql(fault, ItemNotFound(m, p, <<>>)) /\ UNCHANGED rows
             ELSE IF fault = 2 THEN AnswerSql(fault, InternalError(m, p, <<>>)) /\ UNCHANGED rows
             ELSE /\ rows' = DeleteById(rows, id.val)
                  /\ AnswerSql(fault, Response(m, p, <<>>, 200, DeletedBody(item[1]), TRUE))
    /\ UNCHANGED <<backend, created, items, nextId, seq, inflight, workload, peer>>

\* resetMyServerData: the error of a statement that throws is logged and
\* the statements after it are skipped
SqlReset ==
    /\ backend = "sql" /\ Admit
    /\ \E fault \in Workload.faults :
          /\ rows' = IF fault = 1 THEN rows ELSE <<>>
          /\ seq' = IF fault = 0 THEN 0 ELSE seq
          /\ created' = IF fault = 0 THEN 0 ELSE created
    /\ Silent
    /\ UNCHANGED <<backend, items, nextId, inflight, workload, peer>>

----------------------------------------------------------------------------
(* The state after createMyServer(), and the steps.                        *)

Start ==
    /\ backend \in {"memory", "sql"}
    /\ peer = NoResponse
    /\ up = TRUE
    /\ items = <<>>
    /\ nextId = 1
    /\ rows = <<>>
    /\ seq = 0
    /\ inflight = EmptyBag
    /\ last = NoResponse
    /\ created = 0

Init == Start /\ workload = "race"

SeqInit == Start /\ workload = "seq"

Next ==
    \/ \E <<m, p>> \in Workload.requests : Options(m, p)
    \/ \E <<m, p>> \in Workload.requests : NotFound(m, p)
    \/ \E <<m, p>> \in Workload.requests : PostArrive(m, p)
    \/ \E r \in BagToSet(inflight) : Data(r)
    \/ \E <<m, p>> \in Workload.requests : MemGetItems(m, p)
    \/ \E <<m, p>> \in Workload.requests : MemGetItem(m, p)
    \/ \E r \in BagToSet(inflight) : MemPostEnd(r)
    \/ \E <<m, p>> \in Workload.requests : MemPutArrive(m, p)
    \/ \E r \in BagToSet(inflight) : MemPutEnd(r)
    \/ \E <<m, p>> \in Workload.requests : MemDelete(m, p)
    \/ MemReset
    \/ \E <<m, p>> \in Workload.requests : SqlGetItems(m, p)
    \/ \E <<m, p>> \in Workload.requests : SqlGetItem(m, p)
    \/ \E r \in BagToSet(inflight) : SqlPostEnd(r)
    \/ \E <<m, p>> \in Workload.requests : SqlPutArrive(m, p)
    \/ \E r \in BagToSet(inflight) : SqlPutEnd(r)
    \/ \E <<m, p>> \in Workload.requests : SqlDelete(m, p)
    \/ SqlReset

\* requests of several connections, their events interleaved
Spec == Init /\ [][Next]_vars

\* the same server, its requests sent one at a time
SeqSpec == SeqInit /\ [][Next]_vars

FaultInit == Start /\ workload = "fault"

\* requests one at a time, the store operations of the SQL server failing
\* at will
FaultSpec == FaultInit /\ [][Next]_vars

----------------------------------------------------------------------------
(* The two servers side by side, as the test suite runs against either:    *)
(* each request is sent to the in-memory server and, once answered, to the *)
(* SQL server; backend names the server whose turn it is, and peer keeps   *)
(* the answer of the in-memory server meanwhile.                           *)

\* the server whose turn it is has not answered yet, and the SQL server is
\* sent the request the in-memory server answered
Turn(m, p) ==
    /\ last = NoResponse
    /\ backend = "sql" => (m = peer.method /\ p = peer.path)

\* the SQL server is sent the body the in-memory server read; a PUT the
\* in-memory server refused before reading its body can carry any body
SameBody ==
    \A r \in BagToSet(inflight) :
        \/ backend = "memory"
        \/ peer.method = "PUT" /\ peer.status = 404
        \/ r.body \o r.chunks = peer.payload

\* the request the in-memory server answered goes to the SQL server
ToSql ==
    /\ backend = "memory" /\ up
    /\ last # NoResponse /\ inflight = EmptyBag
    /\ backend' = "sql"
    /\ peer' = last
    /\ last' = NoResponse
    /\ UNCHANGED <<up, items, nextId, rows, seq, inflight, created, workload>>

\* both servers have answered: the next request
ToMemory ==
    /\ backend = "sql" /\ up
    /\ last # NoResponse /\ inflight = EmptyBag
    /\ backend' = "memory"
    /\ peer' = NoResponse
    /\ last' = NoResponse
    /\ UNCHANGED <<up, items, nextId, rows, seq, inflight, created, workload>>

\* resetMyServerData of both modules, between two requests
PairReset ==
    /\ backend = "memory" /\ Admit
    /\ last = NoResponse
    /\ items' = <<>>
    /\ nextId' = 1
    /\ rows' = <<>>
    /\ seq' = 0
    /\ created' = 0
    /\ UNCHANGED <<backend, up, inflight, last, workload, peer>>

PairInit == Start /\ backend = "memory" /\ workload = "pair"

PairNext ==
    \/ \E <<m, p>> \in Workload.requests : Turn(m, p) /\ Options(m, p)
    \/ \E <<m, p>> \in Workload.requests : Turn(m, p) /\ NotFound(m, p)
    \/ \E <<m, p>> \in Workload.requests : Turn(m, p) /\ PostArrive(m, p) /\ SameBody'
    \/ \E r \in BagToSet(inflight) : Data(r)
    \/ \E <<m, p>> \in Workload.requests : Turn(m, p) /\ MemGetItems(m, p)
    \/ \E <<m, p>> \in Workload.requests : Turn(m, p) /\ MemGetItem(m, p)
    \/ \E r \in BagToSet(inflight) : MemPostEnd(r)
    \/ \E <<m, p>> \in Workload.requests : Turn(m, p) /\ MemPutArrive(m, p)
    \/ \E r \in BagToSet(inflight) : MemPutEnd(r)
    \/ \E <<m, p>> \in Workload.requests : Turn(m, p) /\ MemDelete(m, p)
    \/ \E <<m, p>> \in Workload.requests : Turn(m, p) /\ SqlGetItems(m, p)
    \/ \E <<m, p>> \in Workload.requests : Turn(m, p) /\ SqlGetItem(m, p)
    \/ \E r \in BagToSet(inflight) : SqlPostEnd(r)
    \/ \E <<m, p>> \in Workload.requests : Turn(m, p) /\ SqlPutArrive(m, p) /\ SameBody'
    \/ \E r \in BagToSet(inflight) : SqlPutEnd(r)
    \/ \E <<m, p>> \in Workload.requests : Turn(m, p) /\ SqlDelete(m, p)
    \/ PairReset
    \/ ToSql
    \/ ToMemory

\* both servers, started from the reset state, the requests one at a time
PairSpec == PairInit /\ [][PairNext]_vars

----------------------------------------------------------------------------
(* What the properties speak about.                                        *)

\* the store of the running server
Store == IF backend = "memory" THEN items ELSE rows

\* the items of a store, in its order
Present(store) == SelectSeq(store, LAMBDA x : x # Hole)

\* the ids of the items of a store
IdsOf(store) == {store[i].id : i \in {j \in 1..Len(store) : store[j] # Hole}}

\* the id-based routes
IdRoute(r) == r.method \in {"GET", "PUT", "DELETE"} /\ UnderItems(r.path)

\* the id a response's request names
IdOf(r) == ParseInt(IdSegment(r.path))

\* the id-based route r names the integer k
Names(r, k) == IdRoute(r) /\ ~IdOf(r).nan /\ IdOf(r).val = k

\* the parsed body of a response's request
DataOf(r) == ParseBody(r.payload).data

----------------------------------------------------------------------------
\* C1: in every reachable state no two stored items have the same id.
C1_IdsUnique ==
    \A i, j \in 1..Len(Store) :
        (i # j /\ Store[i] # Hole /\ Store[j] # Hole) => Store[i].id # Store[j].id

\* C2: an id that was assigned since the last reset and whose item has been
\* deleted is not the id of a stored item again before the next reset.
C2_NoReuse ==
    [][\A k \in 1..created :
          (k \notin IdsOf(Store)) => (k \notin IdsOf(Store'))]_vars

\* C3: a POST answered 201 returns the trimmed name and description under the
\* id 1 + the number of POSTs answered 201 since the last reset, and a GET of
\* that id right after it returns 200 with that item.
C3_CreateRoundTrip ==
    [][/\ (last'.method = "POST" /\ last'.status = 201) =>
             last'.body = ItemBody(Item(created + 1,
                                        Trim(PropName(DataOf(last')).s),
                                        Trim(PropDescription(DataOf(last')).s)))
       /\ (last.method = "POST" /\ last.status = 201
           /\ Names(last', last.body.item.id) /\ last'.method = "GET") =>
             (last'.status = 200 /\ last'.body = last.body)]_vars

\* C4: GET /items answers 200 with the items of the store, none missing, in
\* strictly ascending order of id.
C4_ListInOrder ==
    (last.method = "GET" /\ IsItems(last.path)) =>
        /\ last.status = 200
        /\ last.body = ListBody(Store)
        /\ \A i \in 1..Len(last.body.list) : last.body.list[i] # Hole
        /\ \A i, j \in 1..Len(last.body.list) :
              i < j => last.body.list[i].id < last.body.list[j].id

\* C5: a PUT of a stored item k with a valid body answers 200 with k and the
\* trimmed fields; the store keeps its length, item k has the new fields at
\* its place and every other item is unchanged.
C5_UpdateInPlace ==
    [][(last'.method = "PUT" /\ UnderItems(last'.path) /\ ~IdOf(last').nan
        /\ IdOf(last').val \in IdsOf(Store)
        /\ validateItemInput(DataOf(last')).isValid
        /\ ~ParseBody(last'.payload).threw) =>
          LET k == IdOf(last').val
              new == Trimmed(k, DataOf(last'))
          IN /\ last'.status = 200
             /\ last'.body = ItemBody(new)
             /\ Len(Store') = Len(Store)
             /\ \A i \in 1..Len(Store) :
                   IF Store[i] # Hole /\ Store[i].id = k
                   THEN Store'[i] = new
                   ELSE Store'[i] = Store[i]]_vars

\* C6: a DELETE of a stored item k answers 200 with the message and the item
\* as stored, removes item k and nothing else, keeps the order of the rest,
\* and a GET of k right after it answers 404.
C6_DeleteExactlyOne ==
    [][/\ (last'.method = "DELETE" /\ Names(last', IdOf(last').val)
           /\ IdOf(last').val \in IdsOf(Store)) =>
             LET k == IdOf(last').val
             IN /\ last'.status = 200
                /\ last'.body.kind = "deleted"
                /\ last'.body.message = "Item deleted"
                /\ \E i \in 1..Len(Store) : Store[i] = last'.body.item
                /\ last'.body.item.id = k
                /\ Store' = SelectSeq(Store, LAMBDA x : x = Hole \/ x.id # k)
       /\ (last.method = "DELETE" /\ last.status = 200 /\ IdRoute(last)
           /\ last'.method = "GET" /\ Names(last', IdOf(last).val)) =>
             (last'.status = 404 /\ last'.body = ErrorBody("Item not found"))]_vars

\* a segment without any digit
NonNumeric(segment) == \A i \in 1..Len(segment) : ~IsDigit(segment[i])

\* C7: GET, PUT and DELETE on /items/<segment> with a non-numeric or empty
\* segment answer 400 "Invalid item ID" at once, without reading or changing
\* the store; none of them is left waiting for its body.
C7_MalformedId ==
    [][/\ (IdRoute(last') /\ NonNumeric(IdSegment(last'.path))) =>
             /\ last'.status = 400
             /\ last'.body = ErrorBody("Invalid item ID")
             /\ ~last'.read
             /\ UNCHANGED <<items, nextId, rows, seq, inflight>>
       /\ \A r \in BagToSet(inflight') :
             IdRoute(r) => ~NonNumeric(IdSegment(r.path))]_vars

\* C7, reached: DELETE /items/ is refused while the store holds an item
C7_Witness ==
    /\ last.method = "DELETE" /\ last.path = <<"items", <<>>>>
    /\ last.status = 400
    /\ Store # <<>>

\* C8: GET, PUT and DELETE on /items/<id> with an integer id that no stored
\* item has answer 404 "Item not found" and leave the store as it is.
C8_AbsentId ==
    [][(IdRoute(last') /\ ~IdOf(last').nan /\ IdOf(last').val \notin IdsOf(Store)) =>
          /\ last'.status = 404
          /\ last'.body = ErrorBody("Item not found")
          /\ Store' = Store]_vars

\* the response to a POST /items whose body has ended
Create(r) == r.method = "POST" /\ IsItems(r.path)

\* the response to a PUT of an item the store holds
Update(r, store) ==
    r.method = "PUT" /\ IdRoute(r) /\ ~IdOf(r).nan /\ IdOf(r).val \in IdsOf(store)

\* the body of the request was empty or was JSON
Parsed(r) == ~ParseBody(r.payload).threw

\* a string of 1 to max characters, blanks at both ends not counted
FitsTrimmed(v, max) == v.t = "string" /\ Length(Trim(v.s)) >= 1 /\ Length(Trim(v.s)) <= max

Accepted(r) == r.status = (IF r.method = "POST" THEN 201 ELSE 200)

Rejected(r) ==
    r.status = 400 /\ r.body.kind = "validation" /\ r.body.error = "Validation failed"

\* C9: a POST, or a PUT of a stored item, is accepted when name and
\* description are strings, not blank, of at most 100 and 500 characters
\* after trimming, and every other parsed body is rejected with
\* "Validation failed".
C9_AcceptsTrimmedLength ==
    [][((Create(last') \/ Update(last', Store)) /\ Parsed(last')) =>
          IF /\ FitsTrimmed(PropName(DataOf(last')), NameMax)
             /\ FitsTrimmed(PropDescription(DataOf(last')), DescMax)
          THEN Accepted(last')
          ELSE Rejected(last')]_vars

\* the messages of the rules a parsed body violates: a body is required;
\* with a body, each field is required as a non-blank string and has its
\* maximal length
Violated(data) ==
    IF data.t \in {"undefined", "null"} \/ data = JNum(0) \/ data = JBool(FALSE)
       \/ data = JStr(EmptyStr)
    THEN {MsgBody}
    ELSE LET n == PropName(data)
             d == PropDescription(data)
         IN {m \in {MsgName} : n.t # "string" \/ Trim(n.s) = EmptyStr}
            \cup {m \in {MsgDescription} : d.t # "string" \/ Trim(d.s) = EmptyStr}
            \cup {m \in {MsgNameLong} : n.t = "string" /\ Length(n.s) > NameMax}
            \cup {m \in {MsgDescriptionLong} : d.t = "string" /\ Length(d.s) > DescMax}

----------------------------------------------------------------------------
\* this step is the "end" callback of a request: it answers the request and
\* takes it out of the requests in flight
BodyEnded == inflight' # inflight /\ last' # NoResponse

\* the body the request sent holds text that JSON.parse rejects
NotJson(r) == \E i \in 1..Len(r.payload) : ~r.payload[i].json

\* C11: a POST /items, or a PUT of a stored item, whose body is no JSON is
\* answered 400 "Invalid JSON", and the store and the next id stay as they
\* are.
C11_InvalidJson ==
    [][(BodyEnded /\ NotJson(last') /\ (Create(last') \/ Update(last', Store))) =>
          /\ last'.status = 400
          /\ last'.body = ErrorBody("Invalid JSON")
          /\ Store' = Store
          /\ NextIdOf' = NextIdOf]_vars

\* C11, reached: a PUT of a stored item with a body that is no JSON was
\* refused
C11_Witness ==
    /\ last.method = "PUT" /\ NotJson(last)
    /\ last.body = ErrorBody("Invalid JSON")
    /\ IdOf(last).val \in IdsOf(Store)

\* C12: a POST /items, or a PUT of a stored item, that sends no body is
\* answered 400 "Validation failed" with the one detail "Request body is
\* required", not "Invalid JSON", and the store stays as it is.
C12_NoBody ==
    [][(BodyEnded /\ last'.payload = <<>> /\ (Create(last') \/ Update(last', Store))) =>
          /\ last'.status = 400
          /\ last'.body = ValidationBody(<<MsgBody>>)
          /\ Store' = Store]_vars

\* C12, reached: a PUT of a stored item without a body was refused
C12_Witness ==
    /\ last.method = "PUT" /\ last.payload = <<>>
    /\ last.body = ValidationBody(<<MsgBody>>)
    /\ IdOf(last).val \in IdsOf(Store)

----------------------------------------------------------------------------
\* this step is a call of resetMyServerData: the one step that neither
\* answers a request nor touches the requests in flight
ResetStep == last' = NoResponse /\ inflight' = inflight

\* C13: resetMyServerData, called in any reachable state, leaves the store
\* empty and the next id 1; GET /items on the empty store answers the empty
\* list, the first POST answered 201 after it gets id 1, and a second reset
\* changes nothing.
C13_Reset ==
    [][/\ ResetStep => (Store' = <<>> /\ NextIdOf' = 1 /\ created' = 0)
       /\ (ResetStep /\ Store = <<>> /\ NextIdOf = 1 /\ created = 0) =>
             UNCHANGED <<items, nextId, rows, seq, created>>
       /\ (Store = <<>> /\ last'.method = "GET" /\ IsItems(last'.path)) =>
             (last'.status = 200 /\ last'.body = ListBody(<<>>))
       /\ (created = 0 /\ last'.method = "POST" /\ last'.status = 201) =>
             last'.body.item.id = 1]_vars

\* C13, reached: a reset emptied the store while a PUT that had found its
\* item was waiting for its body
C13_Witness ==
    /\ last = NoResponse /\ Store = <<>> /\ NextIdOf = 1
    /\ \E r \in BagToSet(inflight) : r.method = "PUT" /\ r.itemIndex >= 0

----------------------------------------------------------------------------
\* a request that is no OPTIONS and none of GET /items, POST /items and GET,
\* PUT, DELETE on a path under /items/
OtherRoute(r) ==
    /\ r.method \notin {"", "OPTIONS"}
    /\ ~(r.method \in {"GET", "POST"} /\ r.path = <<"items">>)
    /\ ~(r.method \in {"GET", "PUT", "DELETE"} /\ Len(r.path) >= 2 /\ r.path[1] = "items")

\* C14: a request that is no OPTIONS and matches none of the five routes is
\* answered 404 "Not found" at once, the store neither read nor changed.
C14_NotFound ==
    [][OtherRoute(last') =>
          /\ last'.status = 404
          /\ last'.body = ErrorBody("Not found")
          /\ ~last'.read
          /\ UNCHANGED <<items, nextId, rows, seq, inflight>>]_vars

\* C14, reached: POST /items/1 is refused while item 1 is stored
C14_Witness ==
    /\ last.method = "POST" /\ last.path = ItemPath(1)
    /\ last.status = 404
    /\ 1 \in IdsOf(Store)

\* C15: OPTIONS on any path is answered 200 without a body, the store
\* neither read nor changed, whatever the store holds.
C15_Options ==
    [][last'.method = "OPTIONS" =>
          /\ last'.status = 200
          /\ last'.body = NoBody
          /\ ContentType \notin last'.headers
          /\ ~last'.read
          /\ UNCHANGED <<items, nextId, rows, seq, inflight>>]_vars

\* C15, reached: OPTIONS /items/1 answered while item 1 is stored
C15_Witness ==
    /\ last.method = "OPTIONS" /\ last.path = ItemPath(1)
    /\ last.status = 200
    /\ 1 \in IdsOf(Store)

\* C16: every response that is sent carries the three CORS headers.
C16_Cors ==
    last.status # 0 =>
        /\ <<"Access-Control-Allow-Origin", "*">> \in last.headers
        /\ <<"Access-Control-Allow-Methods", "GET, POST, PUT, DELETE">> \in last.headers
        /\ <<"Access-Control-Allow-Headers", "Content-Type">> \in last.headers

\* C16, reached: the 500 of a DELETE whose statement failed carries the
\* headers
C16_Witness ==
    /\ last.method = "DELETE" /\ last.status = 500
    /\ last.body = ErrorBody("Internal server error")
    /\ AllowHeaders \in last.headers

----------------------------------------------------------------------------
\* a request of a route that takes a body: POST /items, and PUT on a path
\* under /items/ whose id segment is well formed
BodyRoute(r) ==
    \/ r.method = "POST" /\ r.path = <<"items">>
    \/ r.method = "PUT" /\ UnderItems(r.path) /\ ~ParseInt(IdSegment(r.path)).nan

\* C17: a request of a route that takes a body is answered, and reads or
\* writes the store, only in the step that ends its body.
C17_BodyFirst ==
    [][(BodyRoute(last') /\ (last'.status # 0 \/ last'.read)) => BodyEnded]_vars

\* a store that requests served one at a time can leave: no hole, the ids
\* ascending, each of them assigned since the last reset
SerialStore ==
    /\ \A i \in 1..Len(Store) : Store[i] # Hole /\ Store[i].id \in 1..created
    /\ \A i, j \in 1..Len(Store) : i < j => Store[i].id < Store[j].id

\* C18: the requests do not race: whenever no request is in flight the
\* server is up and the store is one that the same requests, served one at a
\* time in some order, can leave.
C18_Serializable == inflight = EmptyBag => (up /\ SerialStore)

\* C20: every element of the store is an item with a positive id, a name of
\* 1 to 100 characters and a description of 1 to 500 characters, both
\* without blanks at their ends.
C20_StoredItems ==
    \A i \in 1..Len(Store) :
        /\ Store[i] # Hole
        /\ Store[i].id \in Nat \ {0}
        /\ Store[i].name = Trim(Store[i].name)
        /\ Length(Store[i].name) \in 1..NameMax
        /\ Store[i].description = Trim(Store[i].description)
        /\ Length(Store[i].description) \in 1..DescMax

----------------------------------------------------------------------------
\* C19: started from the reset state and sent the same requests and resets
\* one at a time, the in-memory server and the SQL server answer every
\* request with the same status and the same JSON body.
C19_SameAnswers ==
    (backend = "sql" /\ last # NoResponse) =>
        (last.status = peer.status /\ last.body = peer.body)

\* C19, reached: both servers gave the POST that follows the deletion of
\* the newest item the next id, not the id of the deleted item
C19_Witness ==
    /\ backend = "sql" /\ last.method = "POST" /\ last.status = 201
    /\ last.body = peer.body
    /\ last.body.item.id = 2
    /\ Len(rows) = 1 /\ Len(items) = 1

----------------------------------------------------------------------------
\* the store operations the SQL handler of the answered request r attempts
\* on the table store when none of them throws
StoreOps(r, store) ==
    LET wellFormed == UnderItems(r.path) /\ ~IdOf(r).nan
        stored == wellFormed /\ IdOf(r).val \in IdsOf(store)
        valid == Parsed(r) /\ validateItemInput(DataOf(r)).isValid
    IN CASE r.method = "GET" /\ r.path = <<"items">> -> 1
         [] r.method = "GET" /\ wellFormed -> 1
         [] r.method = "POST" /\ r.path = <<"items">> -> IF valid THEN 1 ELSE 0
         [] r.method = "PUT" /\ wellFormed -> IF stored /\ valid THEN 2 ELSE 1
         [] r.method = "DELETE" /\ wellFormed -> IF stored THEN 2 ELSE 1
         [] OTHER -> 0

\* C21: in the SQL server a request one of whose store operations throws is
\* answered 500 "Internal server error", once and for all: the request is
\* not in flight any more and the store is as it was; no other request is
\* answered 500.
C21_StoreFailure ==
    [][(backend = "sql" /\ last'.status # 0) =>
          IF last'.fault \in 1..StoreOps(last', Store)
          THEN /\ last'.status = 500
               /\ last'.body = ErrorBody("Internal server error")
               /\ inflight' = EmptyBag
               /\ rows' = rows /\ seq' = seq
          ELSE last'.status # 500]_vars

\* C21, reached: the UPDATE of a PUT threw after its SELECT had found the
\* item
C21_Witness ==
    /\ last.method = "PUT" /\ last.status = 500 /\ last.fault = 2
    /\ IdOf(last).val \in IdsOf(rows)

----------------------------------------------------------------------------
\* C22: a step that answers a PUT /items/k adds no element to the store,
\* removes none, and leaves every element whose id is not k as it is.
C22_PutFrame ==
    [][(last'.method = "PUT" /\ IdRoute(last') /\ ~IdOf(last').nan) =>
          /\ Len(Store') = Len(Store)
          /\ \A i \in 1..Len(Store) :
                (Store[i] = Hole \/ Store[i].id # IdOf(last').val) =>
                    (i <= Len(Store') /\ Store'[i] = Store[i])]_vars

\* C23: the store and the next id change only in a step that answers a
\* POST with 201, a PUT with 200 or a DELETE with 200, and in a reset: a
\* step that answers a GET, or answers 400, 404 or 500, leaves both as they
\* are.
C23_OnlyWritesChange ==
    [][/\ (last'.method = "GET" \/ last'.status \in {400, 404, 500}) =>
             (Store' = Store /\ NextIdOf' = NextIdOf)
       /\ (Store' # Store \/ NextIdOf' # NextIdOf) =>
             \/ last'.method = "POST" /\ last'.status = 201
             \/ last'.method = "PUT" /\ last'.status = 200
             \/ last'.method = "DELETE" /\ last'.status = 200
             \/ ResetStep]_vars

\* C23, reached: a POST whose INSERT threw was answered 500 and the table
\* kept its one row
C23_Witness ==
    /\ last.method = "POST" /\ last.status = 500
    /\ Len(rows) = 1

\* C24: a step in which the handler of a request runs to its end writes the
\* response of that request; no request is left without one.
C24_OneResponse ==
    [][last'.method # "" => (last'.status # 0 /\ up')]_vars

\* C25: a PUT on a path under /items/ is answered 400 "Invalid item ID" for
\* a malformed id; else 404 "Item not found" when no stored item has the id;
\* else 400 "Invalid JSON" for a body that is no JSON; else 400 "Validation
\* failed" for an invalid item; whatever comes later in this order.
C25_PutPrecedence ==
    [][(last'.method = "PUT" /\ UnderItems(last'.path) /\ last'.status # 500) =>
          IF IdOf(last').nan
          THEN last'.status = 400 /\ last'.body = ErrorBody("Invalid item ID")
          ELSE IF IdOf(last').val \notin IdsOf(Store)
          THEN last'.status = 404 /\ last'.body = ErrorBody("Item not found")
          ELSE IF NotJson(last')
          THEN last'.status = 400 /\ last'.body = ErrorBody("Invalid JSON")
          ELSE IF ~validateItemInput(DataOf(last')).isValid
          THEN last'.status = 400 /\ last'.body.kind = "validation"
          ELSE last'.status = 200]_vars

\* the decimal integer a segment starts with, after a sign; nan when it
\* starts with none
IntegerPrefix(segment) ==
    LET neg == Len(segment) > 0 /\ segment[1] = "-"
        from == IF Len(segment) > 0 /\ segment[1] \in {"-", "+"} THEN 2 ELSE 1
    IN IF from > Len(segment) \/ ~IsDigit(segment[from]) THEN [nan |-> TRUE, val |-> 0]
       ELSE [nan |-> FALSE,
             val |-> IF neg THEN 0 - DigitPrefix(segment, from, 0)
                     ELSE DigitPrefix(segment, from, 0)]

\* the segment starts, after a sign, with 0x or 0X
HexMarked(segment) ==
    LET from == IF Len(segment) > 0 /\ segment[1] \in {"-", "+"} THEN 2 ELSE 1
    IN from + 1 <= Len(segment) /\ segment[from] = "0" /\ segment[from + 1] \in {"x", "X"}

\* the hexadecimal integer that follows the 0x of a segment; nan when none
HexPrefix(segment) ==
    LET neg == segment[1] = "-"
        start == IF segment[1] \in {"-", "+"} THEN 4 ELSE 3
    IN IF start > Len(segment) \/ ~IsRadixDigit(segment[start], 16)
       THEN [nan |-> TRUE, val |-> 0]
       ELSE [nan |-> FALSE,
             val |-> IF neg THEN 0 - RadixPrefix(segment, start, 16, 0)
                     ELSE RadixPrefix(segment, start, 16, 0)]

\* the response answers an id-based route as the route of the id does: 400
\* for no id; never 400 "Invalid item ID" or 404 "Not found" for an id; 404
\* "Item not found" for an id below 1 and for a GET or DELETE of an id no
\* stored item has; the item of the id for a GET or DELETE of a stored id
HandledAs(r, id, store, after) ==
    IF id.nan
    THEN r.status = 400 /\ r.body = ErrorBody("Invalid item ID")
    ELSE /\ r.body \notin {ErrorBody("Invalid item ID"), ErrorBody("Not found")}
         /\ r.body.kind \in {"item", "deleted"} => r.body.item.id = id.val
         /\ (id.val < 1 \/ (r.method # "PUT" /\ id.val \notin IdsOf(store))) =>
               (r.status = 404 /\ r.body = ErrorBody("Item not found"))
         /\ id.val \in IdsOf(store) =>
               /\ r.method = "GET" => (r.status = 200 /\ r.body.kind = "item")
               /\ r.method = "DELETE" =>
                     (r.status = 200 /\ Len(after) = Len(store) - 1)
               /\ r.method = "PUT" => r.status \in {200, 400}

\* C26 as stated: GET, PUT and DELETE on a path under /items/ are handled
\* as the route of the decimal integer the third segment starts with
\* (absent: 404 "Item not found"), and answered 400 only when the segment
\* starts with no integer.
C26_IntegerPrefix ==
    [][(IdRoute(last') /\ last'.status \notin {0, 500}) =>
          HandledAs(last', IntegerPrefix(IdSegment(last'.path)), Store, Store')]_vars

\* C26, amended: as above, but a segment that starts (after a sign) with 0x
\* or 0X names the hexadecimal integer that follows the x, and is answered
\* 400 when no hexadecimal digit follows.
C26_PrefixOrHex ==
    [][(IdRoute(last') /\ last'.status \notin {0, 500}) =>
          LET segment == IdSegment(last'.path)
          IN HandledAs(last', IF HexMarked(segment) THEN HexPrefix(segment)
                              ELSE IntegerPrefix(segment), Store, Store')]_vars

\* C26, reached: GET /items/0x1 is answered with the item of id 1
C26_Witness ==
    /\ last.method = "GET" /\ last.path = <<"items", <<"0", "x", "1">>>>
    /\ last.status = 200

====
